---- MODULE Spec2Model ----
(***************************************************************************)
(* A model of TypedClass/index.py: TypeDef (the per-field constraint       *)
(* bundle), TypedClass (the attribute-guarding object), TypedClassStrict   *)
(* and TypedClassJson (the variants that rewrite the class annotations     *)
(* before delegating to the base constructor).                             *)
(*                                                                         *)
(* One declared class is under test at a time.  Its declaration (the       *)
(* annotation of every field, the class-level defaults and the base class) *)
(* is drawn in Init; the class-level __annotations__ table is shared by    *)
(* every instance and survives from one construction to the next.  The     *)
(* callers of the model use public names only: the declared fields and one *)
(* undeclared name.                                                        *)
(***************************************************************************)
EXTENDS Integers, Sequences, FiniteSets, TLC

\* ---------------------------------------------------------------- bounds
MaxInt == 2             \* the int values offered are 1..MaxInt
MaxDepth == 2           \* nesting depth of the shape-aware classes N1..N<MaxDepth>

\* ---------------------------------------------------------------- values
\* A Python value: its type name, numeric payload, text payload (the class
\* name for an object) and items (the entries of a dict, the attributes of
\* an object, the members of a list).
Val(t, n, s, it) == [tag |-> t, n |-> n, s |-> s, items |-> it]

IntV(k) == Val("int", k, "", <<>>)
StrV(s) == Val("str", 0, s, <<>>)
TrueV == Val("bool", 1, "", <<>>)
FalseV == Val("bool", 0, "", <<>>)
NoneV == Val("NoneType", 0, "", <<>>)
DictV(it) == Val("dict", 0, "", it)
ObjV(cls, it) == Val("obj", 0, cls, it)
ListV(keys) == Val("list", 0, "", [k \in keys |-> NoneV])

Digits == <<"1", "2", "3", "4", "5", "6", "7", "8", "9">>

\* The shape-aware classes: N1 is a TypedClassJson with the one field
\* name: str, and N<d> is a TypedClassJson with the one field inner: N<d-1>.
NestedNames == <<"N1", "N2", "N3", "N4">>
NestedDepth(t) == CHOOSE d \in 1..Len(NestedNames) : NestedNames[d] = t
IsNestedClass(t) == \E d \in 1..Len(NestedNames) : NestedNames[d] = t
NestedField(d) == IF d = 1 THEN "name" ELSE "inner"
NestedFieldType(d) == IF d = 1 THEN "str" ELSE NestedNames[d - 1]

RECURSIVE RawMap(_)
RawMap(d) ==
    IF d = 1 THEN DictV([k \in {"name"} |-> StrV("a")])
    ELSE DictV([k \in {"inner"} |-> RawMap(d - 1)])

\* The values callers pass to the constructor and assign to attributes.
Values ==
    {IntV(k) : k \in 1..MaxInt} \cup {StrV("a"), StrV("1"), TrueV, NoneV}
        \cup {RawMap(d) : d \in 1..MaxDepth}

\* ---------------------------------------------------------------- errors
NoError == [kind |-> "", why |-> "", key |-> "", keys |-> {}]
Error(kind, why, key) == [kind |-> kind, why |-> why, key |-> key, keys |-> {}]
MissingError(keys) ==
    [kind |-> "AttributeError", why |-> "missing_required", key |-> "", keys |-> keys]

Ok(v) == [ok |-> TRUE, val |-> v, err |-> NoError]
Raise(e) == [ok |-> FALSE, val |-> NoneV, err |-> e]

\* ---------------------------------------------------------------- types
\* isinstance(v, t) for one type name; bool is a subclass of int.
IsInstanceOf(v, t) ==
    CASE t = "int" -> v.tag \in {"int", "bool"}
      [] t = "str" -> v.tag = "str"
      [] t = "bool" -> v.tag = "bool"
      [] OTHER -> v.tag = "obj" /\ v.s = t

\* isinstance(v, typeof), typeof a type or a tuple of types (a set of names).
IsInstance(v, typeof) == \E t \in typeof : IsInstanceOf(v, t)

\* Python's ==, as list membership and dict comparison use it: numbers
\* compare by value whatever their type (True == 1), an object only equals
\* itself, dicts compare entry by entry.
RECURSIVE PyEq(_, _)
PyEq(a, b) ==
    CASE a.tag \in {"int", "bool"} /\ b.tag \in {"int", "bool"} -> a.n = b.n
      [] a.tag = "str" /\ b.tag = "str" -> a.s = b.s
      [] a.tag = "NoneType" /\ b.tag = "NoneType" -> TRUE
      [] a.tag = "dict" /\ b.tag = "dict" ->
            /\ DOMAIN a.items = DOMAIN b.items
            /\ \A k \in DOMAIN a.items : PyEq(a.items[k], b.items[k])
      [] OTHER -> FALSE

\* value in choices
PyIn(v, list) == \E i \in 1..Len(list) : PyEq(v, list[i])

\* ---------------------------------------------------------------- TypeDef
\* The three states of an optional bool argument of TypeDef.
TriState == {"None", "True", "False"}

\* choices is None, a list, or (an argument TypeDef refuses) a tuple.
NoChoices == [is_none |-> TRUE, is_list |-> FALSE, list |-> <<>>]
Choices(list) == [is_none |-> FALSE, is_list |-> TRUE, list |-> list]
ChoicesTuple(list) == [is_none |-> FALSE, is_list |-> FALSE, list |-> list]

\* The functions given as validate_fn: their number of parameters and what
\* they return.  "identity" is lambda x: x, "gt1" is lambda x: x > 1,
\* "const_true" is lambda: True, "both" is lambda x, y: True.
ValidateFns == {"identity", "gt1", "const_true", "both"}

\* Lines 101-103: len(list(signature(validate_fn).parameters)).
ValidateFnArity(fn) ==
    CASE fn = "const_true" -> 0
      [] fn = "both" -> 2
      [] OTHER -> 1

\* validate_fn(value); a function that does not take one argument raises
\* TypeError when it is called with one.
CallValidateFn(fn, v) ==
    CASE fn = "identity" -> Ok(v)
      [] fn = "gt1" ->
            IF v.tag \in {"int", "bool"}
            THEN Ok(IF v.n > 1 THEN TrueV ELSE FalseV)
            ELSE Raise(Error("TypeError", "validate_fn_raised", ""))
      [] fn \in {"const_true", "both"} ->
            Raise(Error("TypeError", "validate_fn_raised", ""))
      [] OTHER -> Raise(Error("TypeError", "not_callable", ""))

\* An annotation that is a bare type (or tuple of types), not a TypeDef.
BareType(typeof) ==
    [kind |-> "type", typeof |-> typeof, required |-> "None", immutable |-> "None",
     choices |-> NoChoices, validate_fn |-> "None", convert |-> "None"]

\* The names that are types: the builtin ones and the shape-aware classes.
IsType(t) == t \in {"int", "str", "bool"} \/ IsNestedClass(t)

\* Lines 59-65: isinstance('', typeof) does not raise, which it does unless
\* typeof is a type or a tuple of types.
ValidTypeof(typeof) == \A t \in typeof : IsType(t)

\* BadChoice looking at the first choice only.
BadChoice_FirstOnly(choices, typeof) ==
    Len(choices.list) > 0 /\ ~IsInstance(choices.list[1], typeof)

\* Lines 87-92: some choice is not an instance of typeof.
BadChoice(choices, typeof) ==
    \E i \in 1..Len(choices.list) : ~IsInstance(choices.list[i], typeof)

\* TypeDef.__init__: the argument checks, then the six attributes.
TypeDefNew(typeof, required, immutable, choices, validate_fn, convert) ==
    LET failed(kind, why) ==
            [ok |-> FALSE, spec |-> BareType(typeof), err |-> Error(kind, why, "")]
    IN
    IF ~ValidTypeof(typeof) THEN failed("TypeError", "typeof_not_type")
    ELSE IF required \notin TriState THEN failed("TypeError", "required_not_bool")
    ELSE IF immutable \notin TriState THEN failed("TypeError", "immutable_not_bool")
    ELSE IF ~choices.is_none /\ ~choices.is_list
    THEN failed("TypeError", "choices_not_list")
    ELSE IF ~choices.is_none /\ BadChoice(choices, typeof)
    THEN failed("TypeError", "choice_not_typeof")
    ELSE IF validate_fn # "None" /\ validate_fn \notin ValidateFns
    THEN failed("TypeError", "validate_fn_not_callable")
    ELSE IF validate_fn # "None" /\ ValidateFnArity(validate_fn) > 1
    THEN failed("ValueError", "validate_fn_arity")
    ELSE IF convert \notin TriState THEN failed("TypeError", "convert_not_bool")
    ELSE [ok |-> TRUE,
          spec |-> [kind |-> "TypeDef", typeof |-> typeof, required |-> required,
                    immutable |-> immutable, choices |-> choices,
                    validate_fn |-> validate_fn, convert |-> convert],
          err |-> NoError]

TypeDef(typeof, required, immutable, choices, validate_fn, convert) ==
    TypeDefNew(typeof, required, immutable, choices, validate_fn, convert).spec

\* ---------------------------------------------------------------- mappings
Put(d, k, v) == [x \in DOMAIN d \cup {k} |-> IF x = k THEN v ELSE d[x]]
Remove(d, k) == [x \in DOMAIN d \ {k} |-> d[x]]
EmptyMap == <<>>

\* The name under which TypedClass.__init__ keeps, in the instance's own
\* __dict__, the list of fields that have a class-level default.
DefaultsKeysName == "_TypedClass__attributes_with_defaults_keys"

\* ---------------------------------------------------------------- variants
\* The loop of TypedClassStrict.__init__ over the class annotations: every
\* entry is replaced by a new TypeDef with required and immutable defaulted
\* to True.  (The arguments come from a TypeDef that passed the checks of
\* TypeDef.__init__, or are the literals True, so the checks pass again.)
StrictEntry_Forced(a) ==
    TypeDef(a.typeof, "True", "True", a.choices, a.validate_fn, a.convert)

\* StrictEntryNew with the flags set from the test `is None` itself: True
\* for an unset flag, False for a set one.
StrictEntryNew_UnsetTest(a) ==
    IF a.kind = "TypeDef"
    THEN TypeDefNew(a.typeof,
                    IF a.required = "None" THEN "True" ELSE "False",
                    IF a.immutable = "None" THEN "True" ELSE "False",
                    a.choices, a.validate_fn, a.convert)
    ELSE TypeDefNew(a.typeof, "True", "True", NoChoices, "None", "None")

\* Lines 331-356, the TypeDef(...) call of one iteration.
StrictEntryNew(a) ==
    IF a.kind = "TypeDef"
    THEN TypeDefNew(a.typeof,
                    IF a.required # "None" THEN a.required ELSE "True",
                    IF a.immutable # "None" THEN a.immutable ELSE "True",
                    a.choices, a.validate_fn, a.convert)
    ELSE TypeDefNew(a.typeof, "True", "True", NoChoices, "None", "None")

StrictEntry(a) == StrictEntryNew(a).spec

StrictPass(ann) == [k \in DOMAIN ann |-> StrictEntry(ann[k])]

\* The loop of TypedClassJson.__init__: convert defaulted to True.
JsonEntryNew(a) ==
    IF a.kind = "TypeDef"
    THEN TypeDefNew(a.typeof, a.required, a.immutable, a.choices, a.validate_fn,
                    IF a.convert # "None" THEN a.convert ELSE "True")
    ELSE TypeDefNew(a.typeof, "True", "True", NoChoices, "None", "True")

\* JsonEntry giving convert to the entries that are TypeDefs only.
JsonEntry_TypeDefOnly(a) ==
    IF a.kind = "TypeDef" THEN JsonEntryNew(a).spec
    ELSE TypeDef(a.typeof, "True", "True", NoChoices, "None", "None")

JsonEntry(a) == JsonEntryNew(a).spec

JsonPass(ann) == [k \in DOMAIN ann |-> JsonEntry(ann[k])]

\* The annotations of the shape-aware class N<d> as declared.
NestedAnnotations(d) ==
    [k \in {NestedField(d)} |-> BareType({NestedFieldType(d)})]

\* ---------------------------------------------------------------- TypedClass
\* hasattr(self, key): the instance's __dict__, then the class attributes.
HasAttr(d, cd, key) == key \in DOMAIN d \/ key \in DOMAIN cd

\* DefaultsKeys never recording a key.
DefaultsKeys_Empty(ann, cd) == ListV({})

\* The list stored by lines 148-152: the annotated keys the new instance
\* already has, which are those with a class-level default.
DefaultsKeys(ann, cd) == ListV({k \in DOMAIN ann : k \in DOMAIN cd})

\* UnsetRequiredProps raising on the first missing field it finds.
UnsetRequiredProps_FailFast(ann, d, cd) ==
    LET all == {k \in DOMAIN ann :
                   ann[k].kind = "TypeDef" /\ ann[k].required = "True"
                       /\ ~(k \in DOMAIN d \/ k \in DOMAIN cd)}
    IN IF all = {} THEN {} ELSE {CHOOSE k \in all : TRUE}

\* Lines 160-167: the required fields that have no value.
UnsetRequiredProps(ann, d, cd) ==
    {k \in DOMAIN ann :
        ann[k].kind = "TypeDef" /\ ann[k].required = "True" /\ ~HasAttr(d, cd, k)}

RECURSIVE Call(_, _)
RECURSIVE SetAttr(_, _, _, _, _)
RECURSIVE AssignAll(_, _, _, _, _)
RECURSIVE NestedNew(_, _)

\* typeof(value), the conversion of line 195.
Call(typeof, v) ==
    IF Cardinality(typeof) # 1
    THEN Raise(Error("TypeError", "tuple_not_callable", ""))
    ELSE LET t == CHOOSE x \in typeof : TRUE IN
         CASE t = "int" ->
                CASE v.tag \in {"int", "bool"} -> Ok(IntV(v.n))
                  [] v.tag = "str" ->
                        IF \E k \in 1..Len(Digits) : Digits[k] = v.s
                        THEN Ok(IntV(CHOOSE k \in 1..Len(Digits) : Digits[k] = v.s))
                        ELSE Raise(Error("ValueError", "convert", ""))
                  [] OTHER -> Raise(Error("TypeError", "convert", ""))
           [] t = "str" ->
                CASE v.tag = "str" -> Ok(v)
                  [] v.tag = "int" -> Ok(StrV(Digits[v.n]))
                  [] v.tag = "bool" -> Ok(StrV(IF v.n = 1 THEN "True" ELSE "False"))
                  [] v.tag = "NoneType" -> Ok(StrV("None"))
                  [] OTHER -> Ok(StrV("<repr>"))
           [] t = "bool" ->
                CASE v.tag \in {"int", "bool"} -> Ok(IF v.n # 0 THEN TrueV ELSE FalseV)
                  [] v.tag = "str" -> Ok(IF v.s # "" THEN TrueV ELSE FalseV)
                  [] v.tag = "NoneType" -> Ok(FalseV)
                  [] v.tag \in {"dict", "list"} ->
                        Ok(IF DOMAIN v.items # {} THEN TrueV ELSE FalseV)
                  [] OTHER -> Ok(TrueV)
           [] OTHER -> NestedNew(NestedDepth(t), v)

\* InvalidImmutable without the edge case of the NOTE of lines 212-214.
InvalidImmutable_Unchecked(d, cd, key) == FALSE

\* Lines 216-223: the key has a value the instance did not assign (a
\* class-level default), and the constructor is not running or did not list
\* the key among the defaults.
InvalidImmutable(d, cd, key) ==
    /\ HasAttr(d, cd, key)
    /\ \/ DefaultsKeysName \notin DOMAIN d
       \/ key \notin DOMAIN d[DefaultsKeysName].items

\* NotInChoices with the membership test left out.
NotInChoices_Skipped(a, v) == FALSE

\* Lines 231-232: choices is set and the value is not in it.
NotInChoices(a, v) == ~a.choices.is_none /\ ~PyIn(v, a.choices.list)

\* IsBool taking any result for a bool, so that truthiness decides.
IsBool_Truthy(result) == TRUE

\* Line 241: isinstance(validate_fn_result, bool).
IsBool(result) == result.tag = "bool"

\* Rejected with the value stored before the checks ran.
Rejected_AfterWrite(d, key, value, e) == [err |-> e, dict |-> Put(d, key, value)]

\* A raise inside __setattr__: the error, and the __dict__ as it was.
Rejected(d, key, value, e) == [err |-> e, dict |-> d]

\* SkipsEntry skipping every entry.
SkipsEntry_Everything(value) == TRUE

\* Line 155: the entries of kwargs the constructor does not assign.
SkipsEntry(value) == value.tag = "NoneType"

\* UnknownAttribute with the membership test left out.
UnknownAttribute_Unchecked(ann, key) == FALSE

\* Line 181: key not in self.annotations.
UnknownAttribute(ann, key) == key \notin DOMAIN ann

\* SetAttr with the immutability step ahead of the conversion and the type
\* check.
SetAttr_ImmutableFirst(ann, cd, d, key, value) ==
    LET commit(v) == [err |-> NoError, dict |-> Put(d, key, v)]
    IN
    IF key = DefaultsKeysName THEN commit(value)
    ELSE IF UnknownAttribute(ann, key)
    THEN Rejected(d, key, value, Error("AttributeError", "unknown_attribute", key))
    ELSE IF key \notin DOMAIN ann
    THEN Rejected(d, key, value, Error("KeyError", "annotations", key))
    ELSE LET a == ann[key] IN
    IF a.kind = "TypeDef"
    THEN LET conv == IF a.convert = "True" THEN Call(a.typeof, value) ELSE Ok(value)
             v == conv.val
             res == IF a.validate_fn # "None"
                    THEN CallValidateFn(a.validate_fn, v) ELSE Ok(TrueV)
         IN
         IF a.immutable = "True" /\ key \in DOMAIN d
         THEN Rejected(d, key, v, Error("AttributeError", "immutable", key))
         ELSE IF a.immutable = "True" /\ InvalidImmutable(d, cd, key)
         THEN Rejected(d, key, v, Error("AttributeError", "immutable_default", key))
         ELSE IF ~conv.ok THEN Rejected(d, key, value, [conv.err EXCEPT !.key = key])
         ELSE IF ~IsInstance(v, a.typeof)
         THEN Rejected(d, key, v, Error("TypeError", "type", key))
         ELSE IF NotInChoices(a, v)
         THEN Rejected(d, key, v, Error("TypeError", "choice", key))
         ELSE IF ~res.ok THEN Rejected(d, key, v, [res.err EXCEPT !.key = key])
         ELSE IF ~IsBool(res.val)
         THEN Rejected(d, key, v, Error("TypeError", "validate_fn_return", key))
         ELSE IF res.val.n = 0
         THEN Rejected(d, key, v, Error("TypeError", "validate_fn_failed", key))
         ELSE commit(v)
    ELSE IF ~IsInstance(value, a.typeof)
    THEN Rejected(d, key, value, Error("TypeError", "type", key))
    ELSE commit(value)

\* TypedClass.__setattr__(key, value) on an instance whose class has the
\* annotations ann and the class-level defaults cd and whose __dict__ is d:
\* the error raised (NoError if none) and the __dict__ afterwards.
SetAttr(ann, cd, d, key, value) ==
    LET commit(v) == [err |-> NoError, dict |-> Put(d, key, v)]
    IN
    IF key = DefaultsKeysName THEN commit(value)
    ELSE IF UnknownAttribute(ann, key)
    THEN Rejected(d, key, value, Error("AttributeError", "unknown_attribute", key))
    ELSE IF key \notin DOMAIN ann
    THEN Rejected(d, key, value, Error("KeyError", "annotations", key))
    ELSE LET a == ann[key] IN
    IF a.kind = "TypeDef"
    THEN LET conv == IF a.convert = "True" THEN Call(a.typeof, value) ELSE Ok(value)
             v == conv.val
             res == IF a.validate_fn # "None"
                    THEN CallValidateFn(a.validate_fn, v) ELSE Ok(TrueV)
         IN
         IF ~conv.ok THEN Rejected(d, key, value, [conv.err EXCEPT !.key = key])
         ELSE IF ~IsInstance(v, a.typeof)
         THEN Rejected(d, key, v, Error("TypeError", "type", key))
         ELSE IF a.immutable = "True" /\ key \in DOMAIN d
         THEN Rejected(d, key, v, Error("AttributeError", "immutable", key))
         ELSE IF a.immutable = "True" /\ InvalidImmutable(d, cd, key)
         THEN Rejected(d, key, v, Error("AttributeError", "immutable_default", key))
         ELSE IF NotInChoices(a, v)
         THEN Rejected(d, key, v, Error("TypeError", "choice", key))
         ELSE IF ~res.ok THEN Rejected(d, key, v, [res.err EXCEPT !.key = key])
         ELSE IF ~IsBool(res.val)
         THEN Rejected(d, key, v, Error("TypeError", "validate_fn_return", key))
         ELSE IF res.val.n = 0
         THEN Rejected(d, key, v, Error("TypeError", "validate_fn_failed", key))
         ELSE commit(v)
    ELSE IF ~IsInstance(value, a.typeof)
    THEN Rejected(d, key, value, Error("TypeError", "type", key))
    ELSE commit(value)

\* Lines 154-156 run to the end: the entries of kwargs (the keys still to
\* visit are `keys`) are assigned one by one, None values skipped, until one
\* assignment raises.
AssignAll(ann, cd, d, kwargs, keys) ==
    IF keys = {} THEN [err |-> NoError, dict |-> d]
    ELSE LET k == CHOOSE x \in keys : TRUE
             r == IF ~SkipsEntry(kwargs[k])
                  THEN SetAttr(ann, cd, d, k, kwargs[k])
                  ELSE [err |-> NoError, dict |-> d]
         IN IF r.err # NoError THEN r
            ELSE AssignAll(ann, cd, r.dict, kwargs, keys \ {k})

\* TypedClass.__init__(**kwargs) from start to end on a new instance.
TypedClassInit(ann, cd, kwargs) ==
    LET d0 == SetAttr(ann, cd, EmptyMap, DefaultsKeysName, DefaultsKeys(ann, cd)).dict
        r == AssignAll(ann, cd, d0, kwargs, DOMAIN kwargs)
        d1 == Remove(r.dict, DefaultsKeysName)
        unset_required_props == UnsetRequiredProps(ann, d1, cd)
    IN IF r.err # NoError THEN r
       ELSE IF unset_required_props # {}
       THEN [err |-> MissingError(unset_required_props), dict |-> d1]
       ELSE [err |-> NoError, dict |-> d1]

\* N<d>(raw): TypedClassJson.__init__ of a shape-aware class, as the
\* conversion of a raw value calls it.
NestedNew(d, raw) ==
    IF raw.tag # "dict" THEN Raise(Error("AttributeError", "no_copy", ""))
    ELSE LET ann == StrictPass(JsonPass(NestedAnnotations(d)))
             r == TypedClassInit(ann, EmptyMap, raw.items)
         IN IF r.err # NoError THEN Raise(r.err)
            ELSE Ok(ObjV(NestedNames[d], r.dict))

\* TypedClass.__delattr__(key).
DelAttr(ann, d, key) ==
    IF key \in DOMAIN ann /\ ann[key].kind # "TypeDef"
    THEN [err |-> Error("AttributeError", "type_has_no_immutable", key), dict |-> d]
    ELSE IF key \in DOMAIN ann /\ ann[key].immutable = "True"
    THEN [err |-> Error("AttributeError", "immutable", key), dict |-> d]
    ELSE IF key \notin DOMAIN d
    THEN [err |-> Error("AttributeError", "no_attribute", key), dict |-> d]
    ELSE [err |-> NoError, dict |-> Remove(d, key)]

\* The attributes property: every annotated key getattr finds, with its
\* value (the instance's own, else the class-level default).
Attributes(ann, cd, d) ==
    [k \in {x \in DOMAIN ann : HasAttr(d, cd, x)} |->
        IF k \in DOMAIN d THEN d[k] ELSE cd[k]]

\* The dict property: attributes, a value that has attributes of its own
\* replaced by them.
FlatDict(ann, cd, d) ==
    LET attrs == Attributes(ann, cd, d) IN
    DictV([k \in DOMAIN attrs |->
            IF attrs[k].tag = "obj" THEN DictV(attrs[k].items) ELSE attrs[k]])

\* ---------------------------------------------------------------- the class under test
Fields == {"a", "b"}
Undeclared == "z"
Names == Fields \cup {Undeclared}

\* The base classes a declared class extends.
Bases == {"TypedClass", "TypedClassStrict", "TypedClassJson"}

\* The annotations offered for field a (an int field) ...
DeclsA ==
    {BareType({"int"}),
     TypeDef({"int"}, "None", "None", NoChoices, "None", "None"),
     TypeDef({"int"}, "False", "False", NoChoices, "None", "None"),
     TypeDef({"int"}, "True", "True", NoChoices, "None", "None"),
     TypeDef({"int"}, "None", "None", Choices(<<IntV(1)>>), "None", "None"),
     TypeDef({"int"}, "None", "None", NoChoices, "identity", "None"),
     TypeDef({"int"}, "None", "None", NoChoices, "gt1", "None"),
     TypeDef({"int"}, "None", "None", NoChoices, "None", "True"),
     TypeDef({"int"}, "None", "None", NoChoices, "None", "False"),
     TypeDef({"int"}, "True", "True", Choices(<<IntV(2)>>), "gt1", "None")}

\* ... and for field b (a second required int, a str, a nested shape).
DeclsB ==
    {TypeDef({"int"}, "True", "None", NoChoices, "None", "None"),
     BareType({"str"}),
     BareType({NestedNames[MaxDepth]}),
     TypeDef({"N1"}, "None", "None", NoChoices, "None", "True")}

\* The class bodies offered: every annotation of a beside the required int
\* b, and every annotation of b beside the bare int a.
Declarations ==
    {[k \in Fields |-> IF k = "a" THEN da ELSE db] :
        da \in DeclsA, db \in {TypeDef({"int"}, "True", "None", NoChoices, "None", "None")}}
    \cup
    {[k \in Fields |-> IF k = "a" THEN da ELSE db] :
        da \in {BareType({"int"})}, db \in DeclsB}

\* The class-level defaults offered: none, or a = 2.
DefaultsOffered == {EmptyMap, [k \in {"a"} |-> IntV(2)]}

\* The values offered with the name key, as a keyword argument or in an
\* assignment.
ValuesOffered(key) == IF key = Undeclared THEN {NoneV, IntV(1)} ELSE Values

VARIABLES
    base,           \* the base class of the declared class
    declared,       \* the annotations as the class body declares them
    class_defaults, \* the class-level default values
    annotations,    \* the class's __annotations__, shared by its instances
    dict,           \* the __dict__ of the current instance
    kwargs,         \* the entries of kwargs the loop of __init__ has visited
    pc,             \* "idle", "init" (constructor running), "done", "failed"
    op,             \* the last operation called on the instance, and its key
    err,            \* the error it raised, NoError if it returned
    typedef,        \* a call of TypeDef(...): its arguments and its outcome
    threads         \* the constructor calls that run side by side

vars == <<base, declared, class_defaults, annotations, dict, kwargs,
          pc, op, err, typedef, threads>>

\* No call of TypeDef(...) under way.
TypeDefArgs(typeof, required, immutable, choices, validate_fn, convert) ==
    [typeof |-> typeof, required |-> required, immutable |-> immutable,
     choices |-> choices, validate_fn |-> validate_fn, convert |-> convert]
NoTypeDef ==
    [args |-> TypeDefArgs({}, "None", "None", NoChoices, "None", "None"),
     by |-> "", ok |-> FALSE, spec |-> BareType({}), err |-> NoError]

\* The instances under construction side by side, and one that is not.
ThreadIds == {1, 2}
NoThread ==
    [pc |-> "idle", i |-> 1, value |-> BareType({}), dict |-> EmptyMap,
     input |-> EmptyMap, kwargs |-> EmptyMap, missing |-> {}, err |-> NoError]

\* One instance at a time, no TypeDef call and no second thread.
InitInstance ==
    /\ dict = EmptyMap
    /\ kwargs = EmptyMap
    /\ pc = "idle"
    /\ op = [name |-> "", key |-> ""]
    /\ err = NoError

Init ==
    /\ base \in Bases
    /\ declared \in Declarations
    /\ class_defaults \in DefaultsOffered
    /\ annotations = declared
    /\ InitInstance
    /\ typedef = NoTypeDef
    /\ threads = [t \in ThreadIds |-> NoThread]

\* The annotations after the loops that run before TypedClass.__init__.
VariantPass(b, ann) ==
    CASE b = "TypedClassJson" -> StrictPass(JsonPass(ann))
      [] b = "TypedClassStrict" -> StrictPass(ann)
      [] OTHER -> ann

\* A constructor call, up to the loop over kwargs: the variant's rewriting
\* of the class annotations, then lines 148-152 on the new instance.  The
\* entries of kwargs are drawn as the loop visits them, in any order.
Construct ==
    /\ pc \in {"idle", "done", "failed"}
    /\ annotations' = VariantPass(base, annotations)
    /\ dict' = SetAttr(annotations', class_defaults, EmptyMap, DefaultsKeysName,
                       DefaultsKeys(annotations', class_defaults)).dict
    /\ kwargs' = EmptyMap
    /\ pc' = "init"
    /\ op' = [name |-> "__init__", key |-> ""]
    /\ err' = NoError
    /\ UNCHANGED <<base, declared, class_defaults, typedef, threads>>

\* One iteration of the loop of lines 154-156, on the entry key = value.
InitAssign(key, value) ==
    /\ pc = "init"
    /\ key \notin DOMAIN kwargs
    /\ kwargs' = Put(kwargs, key, value)
    /\ LET r == IF ~SkipsEntry(value)
                THEN SetAttr(annotations, class_defaults, dict, key, value)
                ELSE [err |-> NoError, dict |-> dict]
       IN /\ dict' = r.dict
          /\ err' = r.err
          /\ pc' = IF r.err # NoError THEN "failed" ELSE "init"
    /\ UNCHANGED <<base, declared, class_defaults, annotations, op, typedef, threads>>

\* Lines 158-174, once the loop has visited every entry: the list of
\* defaults is deleted and the required fields are checked.
InitFinish ==
    /\ pc = "init"
    /\ dict' = Remove(dict, DefaultsKeysName)
    /\ LET unset_required_props == UnsetRequiredProps(annotations, dict', class_defaults)
       IN IF unset_required_props # {}
          THEN pc' = "failed" /\ err' = MissingError(unset_required_props)
          ELSE pc' = "done" /\ err' = NoError
    /\ UNCHANGED <<base, declared, class_defaults, annotations, kwargs, op, typedef, threads>>

\* setattr(instance, key, value) by a caller, after the constructor returned
\* or raised.
Assign(key, value) ==
    /\ pc \in {"done", "failed"}
    /\ LET r == SetAttr(annotations, class_defaults, dict, key, value)
       IN dict' = r.dict /\ err' = r.err
    /\ op' = [name |-> "__setattr__", key |-> key]
    /\ kwargs' = EmptyMap
    /\ UNCHANGED <<base, declared, class_defaults, annotations, pc, typedef, threads>>

\* delattr(instance, key) by a caller.
Delete(key) ==
    /\ pc \in {"done", "failed"}
    /\ LET r == DelAttr(annotations, dict, key)
       IN dict' = r.dict /\ err' = r.err
    /\ op' = [name |-> "__delattr__", key |-> key]
    /\ kwargs' = EmptyMap
    /\ UNCHANGED <<base, declared, class_defaults, annotations, pc, typedef, threads>>

Next ==
    \/ Construct
    \/ \E key \in Names : \E value \in ValuesOffered(key) : InitAssign(key, value)
    \/ InitFinish
    \/ \E key \in Names : \E value \in ValuesOffered(key) : Assign(key, value)
    \/ \E key \in Names : Delete(key)

Spec == Init /\ [][Next]_vars

TypeOK ==
    /\ pc \in {"idle", "init", "done", "failed"}
    /\ DOMAIN annotations = Fields

\* ---------------------------------------------------------------- TypeDef(...) calls
\* The arguments offered to TypeDef: types and a value that is no type
\* ("1" stands for the int 1, which is no type, no bool and not callable),
\* lists of choices and a tuple of choices, functions of zero, one and two
\* parameters.
TypeofsOffered == {{"int"}, {"str"}, {"int", "str"}, {"1"}}
FlagsOffered == TriState \cup {"1"}
ChoicesOffered ==
    {NoChoices, Choices(<<>>), Choices(<<IntV(1)>>), Choices(<<IntV(1), StrV("a")>>),
     Choices(<<TrueV, IntV(MaxInt)>>), ChoicesTuple(<<IntV(1)>>)}
ValidateFnsOffered == {"None", "1"} \cup ValidateFns

\* The class and the instance play no part in a call of TypeDef.
NoInstance ==
    /\ base = "TypedClass"
    /\ declared = [k \in Fields |-> BareType({"int"})]
    /\ class_defaults = EmptyMap
    /\ annotations = declared
    /\ InitInstance

InitTypeDef ==
    /\ NoInstance
    /\ threads = [t \in ThreadIds |-> NoThread]
    /\ \E typeof \in TypeofsOffered, required \in FlagsOffered, immutable \in FlagsOffered,
          choices \in ChoicesOffered, validate_fn \in ValidateFnsOffered,
          convert \in FlagsOffered :
            typedef = [NoTypeDef EXCEPT
                        !.args = TypeDefArgs(typeof, required, immutable, choices,
                                             validate_fn, convert)]

\* The call TypeDef(...) in a class body, with the arguments drawn.
NewTypeDef ==
    /\ typedef.by = ""
    /\ LET a == typedef.args
           r == TypeDefNew(a.typeof, a.required, a.immutable, a.choices,
                           a.validate_fn, a.convert)
       IN typedef' = [typedef EXCEPT !.by = "TypeDef", !.ok = r.ok,
                                     !.spec = r.spec, !.err = r.err]
    /\ UNCHANGED <<base, declared, class_defaults, annotations, dict, kwargs,
                   pc, op, err, threads>>

\* The TypeDef(...) call by which one iteration of the loop of
\* TypedClassJson.__init__ or TypedClassStrict.__init__ replaces the entry.
JsonRebuild ==
    /\ typedef.ok
    /\ LET r == JsonEntryNew(typedef.spec)
       IN typedef' = [typedef EXCEPT !.by = "TypedClassJson", !.ok = r.ok,
                                     !.spec = r.spec, !.err = r.err]
    /\ UNCHANGED <<base, declared, class_defaults, annotations, dict, kwargs,
                   pc, op, err, threads>>

StrictRebuild ==
    /\ typedef.ok
    /\ LET r == StrictEntryNew(typedef.spec)
       IN typedef' = [typedef EXCEPT !.by = "TypedClassStrict", !.ok = r.ok,
                                     !.spec = r.spec, !.err = r.err]
    /\ UNCHANGED <<base, declared, class_defaults, annotations, dict, kwargs,
                   pc, op, err, threads>>

NextTypeDef == NewTypeDef \/ JsonRebuild \/ StrictRebuild

SpecTypeDef == InitTypeDef /\ [][NextTypeDef]_vars

\* ---------------------------------------------------------------- constructors side by side
\* Two constructor calls on the one declared class, each a thread of its
\* own: t's position (pc, and the index i into the loop it is in), the
\* annotation_value it has read, the mapping its caller passed (input), the
\* constructor's own copy of it (kwargs), the new instance's __dict__, the
\* unset_required_props list (missing) and the error raised.  A step is one
\* read or one write of the class's __annotations__, the rest of the
\* iteration with it.

\* The order in which a loop over the annotations, or over a mapping written
\* in the order of the class body, visits the fields.
FieldOrder == <<"a", "b">>

\* The mappings the callers pass.
MappingsOffered ==
    {EmptyMap}
    \cup {[k \in {"a"} |-> v] : v \in {IntV(1), StrV("1")}}
    \cup {[k \in {"b"} |-> IntV(1)]}
    \cup {[k \in Fields |-> IF k = "a" THEN IntV(1) ELSE v] :
            v \in {IntV(1), StrV("a"), RawMap(1), RawMap(MaxDepth)}}

InitThreads ==
    /\ base \in {"TypedClassStrict", "TypedClassJson"}
    /\ declared \in Declarations
    /\ class_defaults \in DefaultsOffered
    /\ annotations = declared
    /\ InitInstance
    /\ typedef = NoTypeDef
    /\ threads = [t \in ThreadIds |-> NoThread]

\* What no step of a thread changes.
ThreadFrame ==
    UNCHANGED <<base, declared, class_defaults, dict, kwargs, pc, op, err, typedef>>

\* The call T(m) or T(**m): line 368 copies the mapping, and the first loop
\* over the annotations starts.
Start(t, m) ==
    /\ threads[t].pc = "idle"
    /\ threads' = [threads EXCEPT ![t] =
            [NoThread EXCEPT
                !.pc = IF base = "TypedClassJson" THEN "json_read" ELSE "strict_read",
                !.input = m, !.kwargs = m]]
    /\ UNCHANGED annotations
    /\ ThreadFrame

\* Line 370: annotation_value = self.annotations[key].
JsonRead(t) ==
    /\ threads[t].pc = "json_read"
    /\ threads' = [threads EXCEPT ![t].pc = "json_write",
                                  ![t].value = annotations[FieldOrder[threads[t].i]]]
    /\ UNCHANGED annotations
    /\ ThreadFrame

\* Lines 371-390: self.annotations[key] = TypeDef(...), and on to the next
\* key or, after the last, to TypedClassStrict.__init__.
JsonWrite(t) ==
    /\ threads[t].pc = "json_write"
    /\ annotations' = [annotations EXCEPT
            ![FieldOrder[threads[t].i]] = JsonEntry(threads[t].value)]
    /\ threads' = [threads EXCEPT
            ![t].pc = IF threads[t].i < Len(FieldOrder) THEN "json_read" ELSE "strict_read",
            ![t].i = IF threads[t].i < Len(FieldOrder) THEN threads[t].i + 1 ELSE 1]
    /\ ThreadFrame

\* Line 331: annotation_value = self.annotations[key].
StrictRead(t) ==
    /\ threads[t].pc = "strict_read"
    /\ threads' = [threads EXCEPT ![t].pc = "strict_write",
                                  ![t].value = annotations[FieldOrder[threads[t].i]]]
    /\ UNCHANGED annotations
    /\ ThreadFrame

\* Lines 332-356: self.annotations[key] = TypeDef(...), and on to the next
\* key or, after the last, to TypedClass.__init__ and its lines 148-152.
StrictWrite(t) ==
    /\ threads[t].pc = "strict_write"
    /\ annotations' = [annotations EXCEPT
            ![FieldOrder[threads[t].i]] = StrictEntry(threads[t].value)]
    /\ threads' = [threads EXCEPT
            ![t].pc = IF threads[t].i < Len(FieldOrder) THEN "strict_read" ELSE "assign",
            ![t].i = IF threads[t].i < Len(FieldOrder) THEN threads[t].i + 1 ELSE 1,
            ![t].dict = IF threads[t].i < Len(FieldOrder) THEN EmptyMap
                        ELSE SetAttr(annotations', class_defaults, EmptyMap,
                                     DefaultsKeysName,
                                     DefaultsKeys(annotations', class_defaults)).dict]
    /\ ThreadFrame

\* ThreadAssign storing the value it assigned in the caller's mapping too.
ThreadAssign_WritesBack(t) ==
    LET me == threads[t]
        key == FieldOrder[me.i]
        given == key \in DOMAIN me.kwargs /\ ~SkipsEntry(me.kwargs[key])
        r == IF given
             THEN SetAttr(annotations, class_defaults, me.dict, key, me.kwargs[key])
             ELSE [err |-> NoError, dict |-> me.dict]
        last == me.i = Len(FieldOrder)
    IN
    /\ me.pc = "assign"
    /\ threads' = [threads EXCEPT
            ![t].pc = IF r.err # NoError THEN "failed" ELSE IF last THEN "check" ELSE "assign",
            ![t].i = IF r.err # NoError THEN me.i ELSE IF last THEN 1 ELSE me.i + 1,
            ![t].err = r.err,
            ![t].input = IF given /\ r.err = NoError
                         THEN Put(me.input, key, r.dict[key]) ELSE me.input,
            ![t].dict = IF r.err = NoError /\ last
                        THEN Remove(r.dict, DefaultsKeysName) ELSE r.dict]
    /\ UNCHANGED annotations
    /\ ThreadFrame

\* One iteration of the loop of lines 154-156: setattr reads the class's
\* annotations once (line 191); after the last entry, line 158.
ThreadAssign(t) ==
    LET me == threads[t]
        key == FieldOrder[me.i]
        given == key \in DOMAIN me.kwargs /\ ~SkipsEntry(me.kwargs[key])
        r == IF given
             THEN SetAttr(annotations, class_defaults, me.dict, key, me.kwargs[key])
             ELSE [err |-> NoError, dict |-> me.dict]
        last == me.i = Len(FieldOrder)
    IN
    /\ me.pc = "assign"
    /\ threads' = [threads EXCEPT
            ![t].pc = IF r.err # NoError THEN "failed" ELSE IF last THEN "check" ELSE "assign",
            ![t].i = IF r.err # NoError THEN me.i ELSE IF last THEN 1 ELSE me.i + 1,
            ![t].err = r.err,
            ![t].dict = IF r.err = NoError /\ last
                        THEN Remove(r.dict, DefaultsKeysName) ELSE r.dict]
    /\ UNCHANGED annotations
    /\ ThreadFrame

\* One iteration of the loop of lines 162-167, and after the last, lines
\* 169-174.
ThreadCheck(t) ==
    LET me == threads[t]
        key == FieldOrder[me.i]
        annotation_value == annotations[key]
        unset_required_props ==
            IF /\ annotation_value.kind = "TypeDef"
               /\ annotation_value.required = "True"
               /\ ~HasAttr(me.dict, class_defaults, key)
            THEN me.missing \cup {key} ELSE me.missing
        last == me.i = Len(FieldOrder)
    IN
    /\ me.pc = "check"
    /\ threads' = [threads EXCEPT
            ![t].missing = unset_required_props,
            ![t].i = IF last THEN me.i ELSE me.i + 1,
            ![t].pc = IF ~last THEN "check"
                      ELSE IF unset_required_props # {} THEN "failed" ELSE "done",
            ![t].err = IF last /\ unset_required_props # {}
                       THEN MissingError(unset_required_props) ELSE NoError]
    /\ UNCHANGED annotations
    /\ ThreadFrame

\* A step of a constructor call that is under way.
Step(t) ==
    \/ JsonRead(t)
    \/ JsonWrite(t)
    \/ StrictRead(t)
    \/ StrictWrite(t)
    \/ ThreadAssign(t)
    \/ ThreadCheck(t)

\* Threads scheduled at any point.
NextConcurrent ==
    \/ \E t \in ThreadIds : \E m \in MappingsOffered : Start(t, m)
    \/ \E t \in ThreadIds : Step(t)

SpecConcurrent == InitThreads /\ [][NextConcurrent]_vars

\* One constructor call after the other: a call starts when no other is
\* under way.
Idle(t) == threads[t].pc \in {"idle", "done", "failed"}
NextSequential ==
    \/ \E t \in ThreadIds : \E m \in MappingsOffered :
            (\A u \in ThreadIds : Idle(u)) /\ Start(t, m)
    \/ \E t \in ThreadIds : Step(t)

SpecSequential == InitThreads /\ [][NextSequential]_vars

\* ---------------------------------------------------------------- vocabulary of the claims
\* The flags a field is meant to end up with: what the class body says,
\* an unset flag being true under TypedClassStrict and TypedClassJson.
EffectiveRequired(k) ==
    IF base = "TypedClass" THEN declared[k].required = "True"
    ELSE declared[k].required # "False"
EffectiveImmutable(k) ==
    IF base = "TypedClass" THEN declared[k].immutable = "True"
    ELSE declared[k].immutable # "False"

\* The field has a value in the instance whose __dict__ is d.
Holds(d, k) == k \in DOMAIN d \/ k \in DOMAIN class_defaults
ValueOf(d, k) == IF k \in DOMAIN d THEN d[k] ELSE class_defaults[k]

\* The value as the pipeline sees it after the conversion step.
Converted(k, v) ==
    IF annotations[k].convert = "True" THEN Call(annotations[k].typeof, v) ELSE Ok(v)
TypeCompatible(k, v) ==
    Converted(k, v).ok /\ IsInstance(Converted(k, v).val, annotations[k].typeof)

ImmutableErrors == {"immutable", "immutable_default"}

\* The step is the call setattr(instance, k, v) by a caller, or the
\* constructor's assignment of its entry k = v.
Assigns(k, v) == op'.name = "__setattr__" /\ op'.key = k /\ Assign(k, v)
InitAssigns(k, v) ==
    /\ pc = "init"
    /\ k \notin DOMAIN kwargs
    /\ k \in DOMAIN kwargs'
    /\ kwargs'[k] = v
    /\ v # NoneV
    /\ InitAssign(k, v)
Deletes(k) == op'.name = "__delattr__" /\ op'.key = k /\ Delete(k)

\* ---------------------------------------------------------------- C1
\* C1 as stated: on a constructed instance, once an immutable field holds a
\* value, every assignment to it raises the immutable-field AttributeError,
\* every deletion of it is rejected, and its value never changes.
C1_AsStated ==
    [][\A k \in Fields :
        (pc = "done" /\ EffectiveImmutable(k) /\ Holds(dict, k)) =>
            /\ \A v \in Values : Assigns(k, v) =>
                    err'.kind = "AttributeError" /\ err'.why \in ImmutableErrors
            /\ Deletes(k) => err'.kind = "AttributeError" /\ err'.why = "immutable"
            /\ pc' = "done" => Holds(dict', k) /\ ValueOf(dict', k) = ValueOf(dict, k)
      ]_vars

\* C1 amended: on a constructed instance, once an immutable field holds a
\* value, every assignment to it is rejected - with the immutable-field
\* AttributeError when the value (after conversion) has the field's type,
\* even if it equals the current value, and with the conversion or type
\* error otherwise -, every deletion is rejected with the immutable-field
\* AttributeError, and the field's value is the same in every later state.
C1_ImmutableOnceSet ==
    [][\A k \in Fields :
        (pc = "done" /\ EffectiveImmutable(k) /\ Holds(dict, k)) =>
            /\ \A v \in Values : Assigns(k, v) =>
                    /\ dict' = dict
                    /\ IF TypeCompatible(k, v)
                       THEN err'.kind = "AttributeError" /\ err'.why \in ImmutableErrors
                       ELSE IF Converted(k, v).ok
                       THEN err'.kind = "TypeError" /\ err'.why = "type"
                       ELSE err' = [Converted(k, v).err EXCEPT !.key = k]
            /\ Deletes(k) =>
                    dict' = dict /\ err'.kind = "AttributeError" /\ err'.why = "immutable"
            /\ pc' = "done" => Holds(dict', k) /\ ValueOf(dict', k) = ValueOf(dict, k)
      ]_vars

\* An assignment of the default's own value to an immutable field that only
\* has its class-level default was rejected on a constructed instance.
C1_Witness ==
    /\ pc = "done"
    /\ op.name = "__setattr__"
    /\ op.key \in Fields
    /\ EffectiveImmutable(op.key)
    /\ op.key \notin DOMAIN dict
    /\ op.key \in DOMAIN class_defaults
    /\ err.kind = "AttributeError"
    /\ err.why = "immutable_default"

\* ---------------------------------------------------------------- C2
\* C2: a field whose declaration leaves required / immutable unset can be
\* omitted at construction and reassigned on a TypedClass; on a
\* TypedClassStrict or TypedClassJson the unset flag is True (omitting the
\* field with no default fails construction, reassigning it is rejected)
\* and an explicit True or False is kept as declared.
C2_UnsetFlags ==
    [][\A k \in Fields :
        /\ base = "TypedClass" =>
            /\ annotations' = declared
            /\ (declared[k].required = "None" /\ err'.why = "missing_required")
                    => k \notin err'.keys
            /\ (declared[k].immutable = "None" /\ pc = "done" /\ k \in DOMAIN dict)
                    => \A v \in Values : Assigns(k, v) =>
                            /\ err'.why \notin ImmutableErrors
                            /\ IsInstance(v, declared[k].typeof) /\ declared[k].kind = "type"
                                    => err' = NoError /\ dict'[k] = v
        /\ (base # "TypedClass" /\ pc' # "idle") =>
            /\ annotations'[k].kind = "TypeDef"
            /\ annotations'[k].required =
                    (IF declared[k].required = "None" THEN "True" ELSE declared[k].required)
            /\ annotations'[k].immutable =
                    (IF declared[k].immutable = "None" THEN "True" ELSE declared[k].immutable)
            /\ (declared[k].required = "None" /\ pc = "init" /\ pc' = "done")
                    => Holds(dict', k)
            /\ (declared[k].immutable = "None" /\ pc = "done" /\ k \in DOMAIN dict)
                    => \A v \in Values : Assigns(k, v) => err' # NoError /\ dict' = dict
      ]_vars

\* A TypedClassStrict or TypedClassJson construction failed for a missing
\* field whose declaration left required unset, on a class that also
\* declares a field with the flags unset.
C2_Witness ==
    /\ base # "TypedClass"
    /\ pc = "failed"
    /\ err.why = "missing_required"
    /\ \E k \in err.keys : declared[k].required = "None"

\* ---------------------------------------------------------------- C3
\* C3: the constructor returns only if every required field has a value
\* once the supplied values are assigned; otherwise it raises one
\* AttributeError that lists exactly the required fields without a value.
C3_RequiredCheck ==
    [][(pc = "init" /\ pc' # "init" /\ kwargs' = kwargs) =>
        LET missing == {k \in Fields : EffectiveRequired(k) /\ ~Holds(dict', k)}
        IN IF missing = {}
           THEN pc' = "done" /\ err' = NoError
           ELSE /\ pc' = "failed"
                /\ err'.kind = "AttributeError"
                /\ err'.why = "missing_required"
                /\ err'.keys = missing
      ]_vars

\* A construction failed with two required fields reported at once.
C3_Witness ==
    /\ pc = "failed"
    /\ op.name = "__init__"
    /\ err.why = "missing_required"
    /\ Cardinality(err.keys) = 2

\* ---------------------------------------------------------------- C4
\* The value passes every check of the field: conversion, type, choices
\* and validate_fn.
Acceptable(k, v) ==
    /\ k \in Fields
    /\ TypeCompatible(k, v)
    /\ annotations[k].choices.is_none
            \/ PyIn(Converted(k, v).val, annotations[k].choices.list)
    /\ annotations[k].validate_fn # "None" =>
            CallValidateFn(annotations[k].validate_fn, Converted(k, v).val) = Ok(TrueV)

\* C4: an assignment that fails at any step leaves the __dict__ exactly as
\* it was, and a value is written only when it passed every check, in which
\* case only its own field changes.
C4_AtomicCommit ==
    [][\A k \in Names : \A v \in Values :
        (Assigns(k, v) \/ InitAssigns(k, v)) =>
            IF err' # NoError THEN dict' = dict
            ELSE /\ Acceptable(k, v)
                 /\ dict' = Put(dict, k, Converted(k, v).val)
      ]_vars

\* A field that had a value kept it after an assignment failed its type
\* check.
C4_Witness ==
    /\ pc = "done"
    /\ op.name = "__setattr__"
    /\ err.kind = "TypeError"
    /\ err.why = "type"
    /\ op.key \in DOMAIN dict

\* ---------------------------------------------------------------- C5
\* The constructor has just returned an instance built from the mapping
\* kwargs, in the cases most favourable to a round trip: no class-level
\* default, no None entry, and every entry either a mapping for a field of
\* a shape-aware class or already an instance of its field's type (so that
\* conversion keeps it equal).
C5_Favourable ==
    /\ base = "TypedClassJson"
    /\ pc = "done"
    /\ op.name = "__init__"
    /\ class_defaults = EmptyMap
    /\ \A k \in DOMAIN kwargs :
            /\ kwargs[k] # NoneV
            /\ \/ IsInstance(kwargs[k], declared[k].typeof)
               \/ /\ kwargs[k].tag = "dict"
                  /\ \A t \in declared[k].typeof : IsNestedClass(t)

\* C5 as stated: the dict property of a TypedClassJson instance built from a
\* raw nested mapping equals that mapping, at every nesting depth.
C5_RoundTrip ==
    C5_Favourable =>
        PyEq(FlatDict(annotations, class_defaults, dict), DictV(kwargs))

\* The mapping has no mapping inside a nested mapping.
OneLevel(m) ==
    \A k \in DOMAIN m :
        m[k].tag = "dict" => \A j \in DOMAIN m[k].items : m[k].items[j].tag # "dict"

\* What the code does give: the round trip of mappings nested one level.
C5_OneLevelRoundTrip ==
    (C5_Favourable /\ OneLevel(kwargs)) =>
        PyEq(FlatDict(annotations, class_defaults, dict), DictV(kwargs))

\* ---------------------------------------------------------------- C6
HasChoices(k) == k \in Fields /\ ~annotations[k].choices.is_none
Member(k, v) == PyIn(Converted(k, v).val, annotations[k].choices.list)

\* C6 as stated: for a field with choices, no value outside the list is
\* ever committed, a type-compatible value outside the list is rejected with
\* the invalid-choice TypeError, and a member that passes the other checks
\* is committed (looked at in the constructor and on constructed instances).
C6_AsStated ==
    [][\A k \in Fields : \A v \in Values :
        (HasChoices(k) /\ pc # "failed" /\ (Assigns(k, v) \/ InitAssigns(k, v))) =>
            /\ err' = NoError => PyIn(dict'[k], annotations[k].choices.list)
            /\ (TypeCompatible(k, v) /\ ~Member(k, v)) =>
                    /\ dict' = dict
                    /\ err'.kind = "TypeError" /\ err'.why = "choice"
            /\ (Acceptable(k, v) /\ ~(annotations[k].immutable = "True" /\ Holds(dict, k)))
                    => err' = NoError /\ dict' = Put(dict, k, Converted(k, v).val)
      ]_vars

\* C6 amended: for a field with choices, no value outside the list is ever
\* committed; a type-compatible value outside the list is rejected and
\* nothing is stored - with the invalid-choice TypeError, or, when the field
\* is immutable and already holds a value, with the immutable-field
\* AttributeError, which is checked first; a member that passes the other
\* checks is committed.
C6_ChoicesEnforced ==
    [][\A k \in Fields : \A v \in Values :
        (HasChoices(k) /\ (Assigns(k, v) \/ InitAssigns(k, v))) =>
            /\ err' = NoError => PyIn(dict'[k], annotations[k].choices.list)
            /\ (TypeCompatible(k, v) /\ ~Member(k, v)) =>
                    /\ dict' = dict
                    /\ \/ err'.kind = "TypeError" /\ err'.why = "choice"
                       \/ /\ annotations[k].immutable = "True"
                          /\ Holds(dict, k)
                          /\ err'.kind = "AttributeError"
                          /\ err'.why \in ImmutableErrors
            /\ (Acceptable(k, v) /\ ~(annotations[k].immutable = "True" /\ Holds(dict, k)))
                    => err' = NoError /\ dict' = Put(dict, k, Converted(k, v).val)
      ]_vars

\* An int outside the choices of a field was rejected with the
\* invalid-choice error.
C6_Witness ==
    /\ op.name = "__setattr__"
    /\ HasChoices(op.key)
    /\ err.kind = "TypeError"
    /\ err.why = "choice"

\* ---------------------------------------------------------------- C7
\* C7: an assignment that reaches the validate_fn step commits the value if
\* validate_fn returns True, raises the failed-validate_fn error if it
\* returns False, and raises a different error, about the return type, if it
\* returns anything that is not a bool, truthy or not; only the first
\* stores anything.
C7_PredicateOutcomes ==
    [][\A k \in Fields : \A v \in Values :
        LET fn == annotations[k].validate_fn
            result == CallValidateFn(fn, Converted(k, v).val)
        IN (/\ fn # "None"
            /\ Assigns(k, v) \/ InitAssigns(k, v)
            /\ TypeCompatible(k, v)
            /\ annotations[k].choices.is_none \/ Member(k, v)
            /\ err'.why \notin ImmutableErrors
            /\ result.ok) =>
                CASE result.val = TrueV ->
                        err' = NoError /\ dict' = Put(dict, k, Converted(k, v).val)
                  [] result.val = FalseV ->
                        /\ err' = Error("TypeError", "validate_fn_failed", k)
                        /\ dict' = dict
                  [] OTHER ->
                        /\ err' = Error("TypeError", "validate_fn_return", k)
                        /\ err' # Error("TypeError", "validate_fn_failed", k)
                        /\ dict' = dict
      ]_vars

\* A validate_fn returned a truthy int and the assignment was rejected for
\* the return type.
C7_Witness ==
    /\ op.key \in Fields
    /\ annotations[op.key].validate_fn = "identity"
    /\ err.kind = "TypeError"
    /\ err.why = "validate_fn_return"

\* ---------------------------------------------------------------- C8
\* The step assigns to the undeclared name.
AssignsUndeclared(v) == Assigns(Undeclared, v) \/ InitAssigns(Undeclared, v)

\* C8 as stated: in every state every key of the instance's __dict__ is an
\* annotated field, and assigning to a name that is not annotated raises the
\* unknown-field AttributeError and stores nothing.
C8_AsStated ==
    [][/\ DOMAIN dict' \subseteq DOMAIN annotations'
       /\ \A v \in Values : AssignsUndeclared(v) =>
            /\ err' = Error("AttributeError", "unknown_attribute", Undeclared)
            /\ dict' = dict
      ]_vars

\* C8 amended: in every state every key of the instance's __dict__ is an
\* annotated field or the constructor's own list of defaults, which is
\* there while the constructor runs and stays after an assignment of the
\* constructor failed, and is gone once the constructor has returned;
\* assigning to any other name that is not annotated raises the
\* unknown-field AttributeError and stores nothing.
C8_StoreWithinAnnotations ==
    [][/\ DOMAIN dict' \subseteq DOMAIN annotations' \cup {DefaultsKeysName}
       /\ pc' = "done" => DOMAIN dict' \subseteq DOMAIN annotations'
       /\ \A v \in Values : AssignsUndeclared(v) =>
            /\ err' = Error("AttributeError", "unknown_attribute", Undeclared)
            /\ dict' = dict
      ]_vars

\* After a failed construction, whose list of defaults is still in the
\* __dict__, an assignment to the undeclared name was rejected.
C8_Witness ==
    /\ pc = "failed"
    /\ DefaultsKeysName \in DOMAIN dict
    /\ op.name = "__setattr__"
    /\ op.key = Undeclared
    /\ err.why = "unknown_attribute"

\* ---------------------------------------------------------------- C9
\* C9 as stated: when the constructor returns, every entry it was given
\* went through the assignment pipeline: its name is an annotated field and
\* the field holds the entry's value, converted if the field converts, which
\* passes the field's checks.
C9_AsStated ==
    (pc = "done" /\ op.name = "__init__") =>
        \A k \in DOMAIN kwargs :
            /\ k \in Fields
            /\ k \in DOMAIN dict
            /\ Acceptable(k, kwargs[k])
            /\ dict[k] = Converted(k, kwargs[k]).val

\* C9 amended: the same of every entry whose value is not None; an entry
\* whose value is None is skipped, whatever its name.
C9_NonNoneEntriesAssigned ==
    (pc = "done" /\ op.name = "__init__") =>
        \A k \in DOMAIN kwargs :
            IF kwargs[k] = NoneV THEN k \notin DOMAIN dict
            ELSE /\ k \in Fields
                 /\ k \in DOMAIN dict
                 /\ Acceptable(k, kwargs[k])
                 /\ dict[k] = Converted(k, kwargs[k]).val

\* The constructor returned after it was given the undeclared name with
\* None, and a value that it stored converted.
C9_Witness ==
    /\ pc = "done"
    /\ op.name = "__init__"
    /\ Undeclared \in DOMAIN kwargs
    /\ \E k \in Fields \cap DOMAIN kwargs : kwargs[k] # NoneV /\ dict[k] # kwargs[k]

\* ---------------------------------------------------------------- C10
\* C10 as stated: deleting a declared field that is not immutable and holds
\* an assigned value succeeds; the field is then unset (and, having no
\* class-level default to fall back on, is not in attributes), and no other
\* field changes.
C10_DeleteUnsetsField ==
    [][\A k \in Fields :
        (/\ pc = "done"
         /\ ~EffectiveImmutable(k)
         /\ k \in DOMAIN dict
         /\ Deletes(k)) =>
            /\ err' = NoError
            /\ dict' = Remove(dict, k)
            /\ k \notin DOMAIN class_defaults =>
                    k \notin DOMAIN Attributes(annotations', class_defaults, dict')
      ]_vars

\* ---------------------------------------------------------------- C11
\* The field is immutable and has nothing but its class-level default when
\* the constructor comes to its entry.
ImmutableWithDefault(k) ==
    /\ k \in Fields
    /\ annotations[k].immutable = "True"
    /\ k \in DOMAIN class_defaults
    /\ k \notin DOMAIN dict

\* C11 as stated: the constructor's assignment of a value to an immutable
\* field that has a class-level default is rejected with the
\* immutable-field error (looked at for values of the field's type, which
\* reach the immutability step).
C11_AsStated ==
    [][\A k \in Fields : \A v \in Values :
        (ImmutableWithDefault(k) /\ InitAssigns(k, v) /\ TypeCompatible(k, v)) =>
            /\ err'.kind = "AttributeError"
            /\ err'.why \in ImmutableErrors
            /\ dict' = dict
      ]_vars

\* C11 amended: the immutability step runs in the constructor's assignments
\* too, but a class-level default does not count as the field's one
\* assignment there: the constructor's value for an immutable field with a
\* class-level default is never rejected as immutable, and is stored over
\* the default when it passes the other checks; once the constructor has
\* returned, the field is immutable whether its value is the default or the
\* constructor's.
C11_ConstructorOverridesDefault ==
    [][\A k \in Fields :
        /\ \A v \in Values : (ImmutableWithDefault(k) /\ InitAssigns(k, v)) =>
                /\ err'.why \notin ImmutableErrors
                /\ Acceptable(k, v) =>
                        err' = NoError /\ dict' = Put(dict, k, Converted(k, v).val)
        /\ (pc = "done" /\ annotations[k].immutable = "True"
                /\ k \in DOMAIN class_defaults) =>
                \A v \in Values : (Assigns(k, v) /\ TypeCompatible(k, v)) =>
                    /\ err'.kind = "AttributeError"
                    /\ err'.why \in ImmutableErrors
                    /\ dict' = dict
      ]_vars

\* The constructor returned an instance whose immutable field holds the
\* constructor's value, not the class-level default.
C11_Witness ==
    /\ pc = "done"
    /\ op.name = "__init__"
    /\ \E k \in DOMAIN kwargs \cap DOMAIN class_defaults :
            /\ annotations[k].immutable = "True"
            /\ k \in DOMAIN dict
            /\ dict[k] # class_defaults[k]

\* ---------------------------------------------------------------- C12
\* A call of TypeDef returned or raised, its validate_fn argument being a
\* function and its other arguments well formed.
ReachesValidateFn ==
    /\ typedef.by = "TypeDef"
    /\ typedef.args.validate_fn \in ValidateFns
    /\ typedef.err.why \notin
            {"typeof_not_type", "required_not_bool", "immutable_not_bool",
             "choices_not_list", "choice_not_typeof", "convert_not_bool"}

\* C12 as stated: TypeDef(...) raises when validate_fn has no parameter or
\* more than one, and does not raise about validate_fn when it has exactly
\* one.
C12_ArityExactlyOne ==
    ReachesValidateFn =>
        IF ValidateFnArity(typedef.args.validate_fn) = 1
        THEN typedef.err.why \notin {"validate_fn_not_callable", "validate_fn_arity"}
        ELSE ~typedef.ok /\ typedef.err.why = "validate_fn_arity"

\* ---------------------------------------------------------------- C13
StructuralCauses ==
    {"unknown_attribute", "missing_required", "immutable", "immutable_default"}
ConstraintCauses ==
    {"type", "choice", "validate_fn_return", "validate_fn_failed", "validate_fn_raised"}

\* C13 as stated, of the operations on an instance: every error raised by
\* the constructor, an assignment or a deletion is an AttributeError or a
\* TypeError - AttributeError for an unknown name, missing required fields
\* and an immutable field, TypeError for a type mismatch, an invalid choice
\* and a failing or malformed validate_fn - and never of a third kind.
C13_TwoErrorKinds ==
    err # NoError =>
        /\ err.kind \in {"AttributeError", "TypeError"}
        /\ err.why \in StructuralCauses => err.kind = "AttributeError"
        /\ err.why \in ConstraintCauses => err.kind = "TypeError"

\* ---------------------------------------------------------------- C14
\* Every choice of the list is an instance of typeof.
ChoicesTyped(choices, typeof) ==
    \A i \in 1..Len(choices.list) : IsInstance(choices.list[i], typeof)

\* C14: a TypeDef that was constructed with choices has a list of choices
\* that are all instances of its typeof; TypeDef(...) raises when choices is
\* not a list or one of them is not an instance of typeof (a TypeError
\* about choices when the arguments before it are well formed); and the
\* TypeDefs that TypedClassStrict and TypedClassJson build from one are
\* constructed with the same choices.
C14_ChoicesTyped ==
    /\ (typedef.ok /\ ~typedef.spec.choices.is_none) =>
            /\ typedef.spec.choices.is_list
            /\ ChoicesTyped(typedef.spec.choices, typedef.spec.typeof)
    /\ (/\ typedef.by = "TypeDef"
        /\ ~typedef.args.choices.is_none
        /\ \/ ~typedef.args.choices.is_list
           \/ ~ChoicesTyped(typedef.args.choices, typedef.args.typeof)) =>
            /\ ~typedef.ok
            /\ (/\ ValidTypeof(typedef.args.typeof)
                /\ typedef.args.required \in TriState
                /\ typedef.args.immutable \in TriState) =>
                    /\ typedef.err.kind = "TypeError"
                    /\ typedef.err.why \in {"choices_not_list", "choice_not_typeof"}
    /\ typedef.by \in {"TypedClassStrict", "TypedClassJson"} =>
            /\ typedef.ok
            /\ typedef.spec.choices = typedef.args.choices
            /\ typedef.spec.typeof = typedef.args.typeof

\* TypeDef(...) raised for a list of choices whose first is an instance of
\* typeof and whose second is not.
C14_Witness ==
    /\ typedef.by = "TypeDef"
    /\ ~typedef.ok
    /\ typedef.err.why = "choice_not_typeof"
    /\ IsInstance(typedef.args.choices.list[1], typedef.args.typeof)

\* ---------------------------------------------------------------- C15
\* C15: from the call T(m) on, whether the constructor returns or raises,
\* the caller's mapping m has the keys and the values it was passed with -
\* the entries the constructor converts are stored in the instance, not in
\* m - so that m can be passed to another constructor call as it is.
C15_MappingKept ==
    [][\A t \in ThreadIds :
        (base = "TypedClassJson" /\ threads[t].pc # "idle") =>
            threads'[t].input = threads[t].input
      ]_vars

\* A TypedClassJson constructor returned an instance that holds a converted
\* value, and a second call with a mapping that has the same entries
\* returned too.
C15_Witness ==
    /\ base = "TypedClassJson"
    /\ \A t \in ThreadIds : threads[t].pc = "done"
    /\ threads[1].input = threads[2].input
    /\ \E k \in DOMAIN threads[1].input : threads[1].dict[k] # threads[1].input[k]

\* ---------------------------------------------------------------- C16
\* The field is immutable and already has its one value: one the instance
\* stored, or, once the constructor has returned, a class-level default.
ImmutableViolated(k) ==
    /\ annotations[k].immutable = "True"
    /\ k \in DOMAIN dict \/ (pc = "done" /\ k \in DOMAIN class_defaults)

\* The first step that the value, as converted, violates, in the order
\* type, immutability, choice, validate_fn; "" if none.
FirstViolated(k, v) ==
    LET a == annotations[k]
        c == Converted(k, v).val
    IN CASE ~IsInstance(c, a.typeof) -> "type"
         [] ImmutableViolated(k) -> "immutable"
         [] ~a.choices.is_none /\ ~PyIn(c, a.choices.list) -> "choice"
         [] a.validate_fn # "None" /\ CallValidateFn(a.validate_fn, c) # Ok(TrueV)
                -> "validate_fn"
         [] OTHER -> ""

ValidateFnErrors == {"validate_fn_return", "validate_fn_failed", "validate_fn_raised"}

\* C16: an assignment, by the constructor or on a constructed instance,
\* reports the first violation in the order unknown name, conversion, type
\* (of the converted value), immutability, choice, validate_fn, and no
\* later one: no validate_fn error comes from a value that fails an earlier
\* step, and a wrongly typed value for an immutable field that is set
\* reports the type error.
C16_EvaluationOrder ==
    [][\A k \in Names : \A v \in Values :
        (pc \in {"init", "done"} /\ (Assigns(k, v) \/ InitAssigns(k, v))) =>
            IF k \notin Fields
            THEN err' = Error("AttributeError", "unknown_attribute", k)
            ELSE IF ~Converted(k, v).ok
            THEN err' = [Converted(k, v).err EXCEPT !.key = k]
            ELSE CASE FirstViolated(k, v) = "type" ->
                        err' = Error("TypeError", "type", k)
                   [] FirstViolated(k, v) = "immutable" ->
                        err'.kind = "AttributeError" /\ err'.why \in ImmutableErrors
                   [] FirstViolated(k, v) = "choice" ->
                        err' = Error("TypeError", "choice", k)
                   [] FirstViolated(k, v) = "validate_fn" ->
                        err'.kind = "TypeError" /\ err'.why \in ValidateFnErrors
                   [] OTHER -> err' = NoError
      ]_vars

\* On a constructed instance, a wrongly typed value for a set immutable
\* field that also has choices and a validate_fn was rejected with the type
\* error.
C16_Witness ==
    /\ pc = "done"
    /\ op.name = "__setattr__"
    /\ op.key \in DOMAIN dict
    /\ annotations[op.key].immutable = "True"
    /\ ~annotations[op.key].choices.is_none
    /\ annotations[op.key].validate_fn # "None"
    /\ err = Error("TypeError", "type", op.key)

\* ---------------------------------------------------------------- C17
\* The convert flag a field is meant to end up with: unset is True under
\* TypedClassJson and False elsewhere.
EffectiveConvert(k) ==
    IF base = "TypedClassJson" THEN declared[k].convert # "False"
    ELSE declared[k].convert = "True"

\* C17: in an assignment, by the constructor or on a constructed instance,
\* to a field that converts - one declared with
\* convert True, or under TypedClassJson with convert unset, a bare type
\* included - the value stored is typeof(value) and the type check is made
\* on it, so that a raw value that is no instance of typeof is stored
\* converted when it passes the other checks; a field that does not convert
\* - convert False, or unset under TypedClass and TypedClassStrict - stores
\* the value as given and rejects a value that is no instance of typeof.
C17_CoercionFirst ==
    [][\A k \in Fields : \A v \in Values :
        (pc \in {"init", "done"} /\ (Assigns(k, v) \/ InitAssigns(k, v))) =>
            LET typeof == declared[k].typeof
                c == Call(typeof, v)
            IN
            /\ annotations[k].typeof = typeof
            /\ (annotations[k].convert = "True") = EffectiveConvert(k)
            /\ IF EffectiveConvert(k)
               THEN /\ err' = NoError =>
                        c.ok /\ IsInstance(c.val, typeof) /\ dict' = Put(dict, k, c.val)
                    /\ ~c.ok => err' = [c.err EXCEPT !.key = k] /\ dict' = dict
                    /\ (c.ok /\ FirstViolated(k, v) = "") => err' = NoError
               ELSE /\ err' = NoError =>
                        IsInstance(v, typeof) /\ dict' = Put(dict, k, v)
                    /\ ~IsInstance(v, typeof) =>
                            err' = Error("TypeError", "type", k) /\ dict' = dict
      ]_vars

\* A TypedClassJson constructor returned an instance whose field, declared
\* with a bare type, holds the value converted from a raw one that is no
\* instance of the type.
C17_Witness ==
    /\ base = "TypedClassJson"
    /\ pc = "done"
    /\ op.name = "__init__"
    /\ \E k \in DOMAIN kwargs \cap Fields :
            /\ declared[k].kind = "type"
            /\ kwargs[k] # NoneV
            /\ ~IsInstance(kwargs[k], declared[k].typeof)
            /\ dict[k] = Call(declared[k].typeof, kwargs[k]).val

\* ---------------------------------------------------------------- C18
\* C18 as stated: whatever was constructed, the class's annotations are
\* what the class body declared: a bare type is still a bare type, a
\* TypeDef has the flags it was declared with.
C18_DeclarationKept == annotations = declared

\* ---------------------------------------------------------------- C19
\* The constructor call T(m), run from start to end with no other call
\* under way, on the class as declared.
Alone(m) == TypedClassInit(VariantPass(base, declared), class_defaults, m)

\* C19 as stated: with two constructor calls on a TypedClassStrict or
\* TypedClassJson class interleaved at single reads and writes of the
\* annotations, a call returns an instance only if the same call, run
\* alone, returns one: every field left with required unset is required in
\* its check of the required fields.
C19_ConcurrentSafe ==
    \A t \in ThreadIds :
        threads[t].pc = "done" =>
            /\ Alone(threads[t].kwargs).err = NoError
            /\ \A k \in Fields :
                    EffectiveRequired(k) => Holds(threads[t].dict, k)

\* ---------------------------------------------------------------- C20
\* A first constructor call has run its loops over the annotations.
FirstCallMade ==
    \E t \in ThreadIds : threads[t].pc \in {"assign", "check", "done", "failed"}

\* C20: constructor calls made one after the other: once the first call has
\* run its loops, whether it then returns or raises, no later step of any
\* call changes the typeof, required, immutable, choices, validate_fn or
\* convert of any field, and these are what the declaration gives with the
\* unset flags defaulted.
C20_Idempotent ==
    [][FirstCallMade =>
        /\ annotations' = annotations
        /\ annotations = VariantPass(base, declared)
      ]_vars

\* After a first call that raised, a second call - whose loops rewrote the
\* annotations again - returned an instance.
C20_Witness ==
    /\ threads[1].pc = "failed"
    /\ threads[2].pc = "done"
    /\ annotations # declared

\* ---------------------------------------------------------------- C21
\* The value, as it is, meets the field's declaration: an instance of
\* typeof, one of the choices where there are choices, and accepted by
\* validate_fn where there is one.
Validated(k, v) ==
    /\ IsInstance(v, annotations[k].typeof)
    /\ annotations[k].choices.is_none \/ PyIn(v, annotations[k].choices.list)
    /\ annotations[k].validate_fn # "None" =>
            CallValidateFn(annotations[k].validate_fn, v) = Ok(TrueV)

\* C21: on a constructed instance, after any constructions, assignments and
\* deletions, every value the attributes property reports meets its field's
\* declaration (type, choices, validate_fn), a value shown from a
\* class-level default included.
C21_ViewsValidated ==
    pc = "done" =>
        LET attrs == Attributes(annotations, class_defaults, dict)
        IN \A k \in DOMAIN attrs : Validated(k, attrs[k])

====
